---- MODULE Spec2Model ----
(***************************************************************************)
(* AWS cloud waste management: the Lambda inventory aggregator (handler    *)
(* with its four describe* queries), the axios client (api.ts) and the     *)
(* React dashboard (App.tsx).                                              *)
(*                                                                         *)
(*   SpecApi : one client call travelling through api.ts and the handler,  *)
(*             the four provider queries of a GET settling in any order.   *)
(*   Spec    : the dashboard component, its Load and Delete requests in    *)
(*             flight, the server answering as the handler does.           *)
(***************************************************************************)
EXTENDS Integers, Sequences, FiniteSets, TLC

VARIABLES
    \* ---- api.ts + handler (SpecApi)
    call,          \* the api.ts function being executed and its argument
    event,         \* the Lambda event of the running handler invocation
    q,             \* the promise of each of the four get*Resources() calls
    raw,           \* what the provider answered to each describe* call
    response,      \* the value the handler returned
    ret,           \* the value the api.ts function returned
    \* ---- App.tsx (Spec)
    resources, loading, error, selectedType,   \* the four useState cells
    issued,        \* number of loadResources() calls started so far
    pendingLoads,  \* loadResources() calls suspended at await fetchResources()
    pendingDeletes,\* handleDelete() calls suspended at await deleteResource(id):
                   \* the id and the resources array each closure holds
    startedDeletes,\* number of confirmed handleDelete() calls so far
    lastResolved,  \* the loadResources() call that resumed last (0: none)
    lastResult,    \* the ResourceResponse that call received
    removedIds     \* ids removed by handleDelete since the last applied Load

apiVars  == <<call, event, q, raw, response, ret>>
dashVars == <<resources, loading, error, selectedType, issued, pendingLoads,
              pendingDeletes, startedDeletes, lastResolved, lastResult, removedIds>>
vars     == <<call, event, q, raw, response, ret,
              resources, loading, error, selectedType, issued, pendingLoads,
              pendingDeletes, startedDeletes, lastResolved, lastResult, removedIds>>

----------------------------------------------------------------------------
(* Bounds *)

\* longest record list one describe* call returns in SpecApi
MaxRecords == 2
\* longest record list one describe* call returns to a dashboard Load
MaxRows == 1
\* loadResources() calls per dashboard session (the mount effect included)
MaxLoads == 2
\* confirmed handleDelete() calls per dashboard session
MaxDeletes == 2

----------------------------------------------------------------------------
(* Values *)

\* JavaScript null / undefined where a string is expected
Null == "<null>"

Truthy(s) == s # Null /\ s # ""

\* the four queries of Promise.all, in argument order; also the resource types
QueryOrder == <<"EC2", "RDS", "EBS", "SNAPSHOT">>
Queries == {"EC2", "RDS", "EBS", "SNAPSHOT"}

RECURSIVE Cat(_, _)
\* f[order[1]] \o f[order[2]] \o ...
Cat(f, order) ==
    IF order = <<>> THEN <<>> ELSE f[Head(order)] \o Cat(f, Tail(order))

\* the listings of at most n distinct elements of S
SeqsUpTo(S, n) ==
    UNION {{s \in [1..m -> S] : \A i, j \in 1..m : i # j => s[i] # s[j]} : m \in 0..n}

\* A provider record: hasTags = FALSE is a record with no Tags member at all.
Rec(id, hasTags, tags, status) ==
    [id |-> id, hasTags |-> hasTags, Tags |-> tags, status |-> status]

Tag(k, v) == [Key |-> k, Value |-> v]

\* The records the provider can hold, per describe* call.
Pool(k) ==
    CASE k = "EC2" ->
           { Rec("i-1", FALSE, <<>>, "stopped"),
             Rec("i-2", TRUE, <<Tag("Name", "web")>>, "stopped"),
             Rec("i-3", TRUE, <<>>, "stopped") }
      [] k = "RDS" ->
           { Rec("db-1", FALSE, <<>>, "stopped"),
             Rec("db-2", FALSE, <<>>, "available") }
      [] k = "EBS" ->
           { Rec("vol-1", FALSE, <<>>, "available"),
             Rec("vol-2", TRUE, <<Tag("Env", "prod")>>, "available"),
             Rec("vol-3", TRUE, <<Tag("Env", "prod"), Tag("Name", "data")>>,
                 "available") }
      [] OTHER ->
           { Rec("snap-1", FALSE, <<>>, "completed"),
             Rec("snap-2", TRUE, <<Tag("Name", "backup")>>, "completed"),
             Rec("snap-3", TRUE, <<Tag("Name", "")>>, "completed") }

\* The outcome of one describe*().promise(): a record list or a rejection.
ProviderOk(records) == [ok |-> TRUE, records |-> records, err |-> Null]
ProviderFail(msg)   == [ok |-> FALSE, records |-> <<>>, err |-> msg]
NoOutcome           == [ok |-> FALSE, records |-> <<>>, err |-> "<pending>"]

OutcomesOver(S, n) ==
    {ProviderFail("Rate exceeded")} \cup {ProviderOk(s) : s \in SeqsUpTo(S, n)}

Outcomes(k, n) == OutcomesOver(Pool(k), n)

\* The records of the account the dashboard session looks at.
DashPool(k) ==
    CASE k = "EC2" -> { Rec("i-2", TRUE, <<Tag("Name", "web")>>, "stopped") }
      [] k = "RDS" -> { Rec("db-1", FALSE, <<>>, "stopped"),
                        Rec("db-2", FALSE, <<>>, "available") }
      [] k = "EBS" -> { Rec("vol-1", FALSE, <<>>, "available") }
      [] OTHER     -> { }

\* Promises
Pending        == [status |-> "pending", value |-> <<>>, reason |-> Null]
Fulfilled(v)   == [status |-> "fulfilled", value |-> v, reason |-> Null]
Rejected(msg)  == [status |-> "rejected", value |-> <<>>, reason |-> msg]

TypeErrorMsg == "Cannot read properties of undefined (reading 'find')"

----------------------------------------------------------------------------
(* Normalisation of provider records (part_000, lines 7-89) *)

Resource(id, type, name, state) ==
    [id |-> id, type |-> type, name |-> name, state |-> state, cost |-> 0]

RECURSIVE FindName(_)
\* tags.find(tag => tag.Key === 'Name')?.Value, Null when no tag matches
FindName(tags) ==
    IF tags = <<>> THEN Null
    ELSE IF Head(tags).Key = "Name" THEN Head(tags).Value
    ELSE FindName(Tail(tags))

\* x || id
OrId(x, id) == IF Truthy(x) THEN x ELSE id

\* volume.Tags?.find(...)?.Value || volume.VolumeId
OptionalTagName(r) == OrId(IF r.hasTags THEN FindName(r.Tags) ELSE Null, r.id)

EC2Map(r) == Resource(r.id, "EC2", OrId(FindName(r.Tags), r.id), r.status)

\* instance.Tags.find(...) has no optional chaining: a record without Tags
\* throws a TypeError inside the map, which rejects the async function.
getEC2Resources(o) ==
    IF ~o.ok THEN Rejected(o.err)
    ELSE IF \E i \in 1..Len(o.records) : ~o.records[i].hasTags
         THEN Rejected(TypeErrorMsg)
    ELSE Fulfilled([i \in 1..Len(o.records) |-> EC2Map(o.records[i])])

RDSStopped(r) == r.status = "stopped"
RDSMap(r) == Resource(r.id, "RDS", r.id, r.status)

getRDSResources(o) ==
    IF ~o.ok THEN Rejected(o.err)
    ELSE LET stopped == SelectSeq(o.records, RDSStopped)
         IN  Fulfilled([i \in 1..Len(stopped) |-> RDSMap(stopped[i])])

EBSMap(r) == Resource(r.id, "EBS", OptionalTagName(r), r.status)

getEBSResources(o) ==
    IF ~o.ok THEN Rejected(o.err)
    ELSE Fulfilled([i \in 1..Len(o.records) |-> EBSMap(o.records[i])])

SnapshotMap(r) == Resource(r.id, "SNAPSHOT", OptionalTagName(r), r.status)

getSnapshots(o) ==
    IF ~o.ok THEN Rejected(o.err)
    ELSE Fulfilled([i \in 1..Len(o.records) |-> SnapshotMap(o.records[i])])

\* the async function behind query k, applied to the provider's outcome
GetResources(k, o) ==
    CASE k = "EC2" -> getEC2Resources(o)
      [] k = "RDS" -> getRDSResources(o)
      [] k = "EBS" -> getEBSResources(o)
      [] OTHER     -> getSnapshots(o)

----------------------------------------------------------------------------
(* exports.handler (part_000, lines 91-181) *)

\* HTTP responses: kind says which member the JSON body carries.
NoResponse == [statusCode |-> 0, kind |-> "none", resources |-> <<>>, text |-> Null]
Ok200Resources(list) ==
    [statusCode |-> 200, kind |-> "resources", resources |-> list, text |-> Null]
Ok200Message(id) ==
    [statusCode |-> 200, kind |-> "message", resources |-> <<>>, text |-> id]
Ok200Empty ==
    [statusCode |-> 200, kind |-> "empty", resources |-> <<>>, text |-> Null]
MethodNotAllowed ==
    [statusCode |-> 405, kind |-> "error", resources |-> <<>>,
     text |-> "Method not allowed"]
\* catch (error): error.message || 'Internal server error'
Catch500(msg) ==
    [statusCode |-> 500, kind |-> "error", resources |-> <<>>,
     text |-> IF Truthy(msg) THEN msg ELSE "Internal server error"]

\* event.pathParameters?.id: <<>> when absent, <<s>> when the string s
NoId == <<>>
PathId(ev) == IF ev.id = <<>> THEN Null ELSE ev.id[1]

Event(method, id) == [httpMethod |-> method, id |-> id]
NoEvent == Event("none", NoId)

allResourcesSwapped(qs) == Cat([k \in Queries |-> qs[k].value],
                               <<"RDS", "EC2", "EBS", "SNAPSHOT">>)

\* [...ec2Resources, ...rdsResources, ...ebsResources, ...snapshotResources]
allResources(qs) == Cat([k \in Queries |-> qs[k].value], QueryOrder)

\* a handler that waited for all four and kept what was fulfilled
GetOutcomePartial(prev, qs, k) ==
    IF prev # NoResponse THEN prev
    ELSE IF \E j \in Queries : qs[j].status = "pending" THEN NoResponse
    ELSE Ok200Resources(allResources(qs))

\* await Promise.all([...]) inside try/catch, evaluated when query k settles:
\* the first rejection rejects the await and the catch answers 500; the last
\* fulfilment resolves it and the handler answers 200. A handler that has
\* returned ignores what settles later.
GetOutcome(prev, qs, k) ==
    IF prev # NoResponse THEN prev
    ELSE IF qs[k].status = "rejected" THEN Catch500(qs[k].reason)
    ELSE IF \A j \in Queries : qs[j].status = "fulfilled"
         THEN Ok200Resources(allResources(qs))
    ELSE NoResponse

\* the branches of the handler that return without awaiting
HandlerSync(ev) ==
    CASE ev.httpMethod = "GET" -> NoResponse
      [] ev.httpMethod = "DELETE" ->
           IF ~Truthy(PathId(ev)) THEN Catch500("Resource ID is required")
           ELSE Ok200Message(PathId(ev))
      [] ev.httpMethod = "OPTIONS" -> Ok200Empty
      [] OTHER -> MethodNotAllowed

----------------------------------------------------------------------------
(* api.ts *)

ResourceResponse(list, err) == [resources |-> list, error |-> err]

Is2xx(resp) == resp.statusCode >= 200 /\ resp.statusCode < 300

\* fetchResources: response.data on a 2xx answer, else the catch branch with
\* error.response?.data?.error || 'Failed to fetch resources'.
\* delivered = FALSE is a request that got no HTTP response.
fetchResources(resp, delivered) ==
    IF delivered /\ Is2xx(resp)
    THEN ResourceResponse(resp.resources, Null)
    ELSE ResourceResponse(<<>>,
            IF delivered /\ resp.kind = "error" /\ Truthy(resp.text)
            THEN resp.text ELSE "Failed to fetch resources")

\* deleteResource: true when api.delete resolved, false from the catch
deleteResource(resp, delivered) == delivered /\ Is2xx(resp)

\* api.delete(`/resources/${resourceId}`): the path segment that reaches the
\* handler as pathParameters.id; an empty segment may arrive absent or empty.
DeletePathIds(resourceId) ==
    IF resourceId = "" THEN {NoId, <<"">>} ELSE {<<resourceId>>}

NoCall == [fn |-> "none", arg |-> Null]
NoRet  == [kind |-> "none", value |-> ResourceResponse(<<>>, Null), ok |-> FALSE]

\* ids deleteResource is called with
ApiIds == {"", "vol-1", "i-2"}

----------------------------------------------------------------------------
(* SpecApi: one api.ts call through the handler *)

InitApi ==
    /\ call = NoCall
    /\ event = NoEvent
    /\ q = [k \in Queries |-> Pending]
    /\ raw = [k \in Queries |-> NoOutcome]
    /\ response = NoResponse
    /\ ret = NoRet

\* the handler is entered with event ev and runs to its first await or return
Invoke(ev) ==
    /\ event' = ev
    /\ q' = [k \in Queries |-> Pending]
    /\ raw' = [k \in Queries |-> NoOutcome]
    /\ response' = HandlerSync(ev)

\* fetchResources(): api.get('/resources')
FetchResourcesCall ==
    /\ call = NoCall
    /\ call' = [fn |-> "fetchResources", arg |-> Null]
    /\ Invoke(Event("GET", NoId))
    /\ UNCHANGED ret

\* deleteResource(resourceId): api.delete(`/resources/${resourceId}`), sent
\* whatever resourceId is
DeleteResourceCall ==
    /\ call = NoCall
    /\ \E id \in ApiIds :
         /\ call' = [fn |-> "deleteResource", arg |-> id]
         /\ \E pid \in DeletePathIds(id) : Invoke(Event("DELETE", pid))
    /\ UNCHANGED ret

\* a request that does not come from api.ts: the browser's preflight, another
\* method, a DELETE routed without path parameters
OtherRequest ==
    /\ call = NoCall
    /\ call' = [fn |-> "request", arg |-> Null]
    /\ \E ev \in {Event("OPTIONS", NoId), Event("PUT", NoId),
                   Event("DELETE", NoId)} : Invoke(ev)
    /\ UNCHANGED ret

\* describe*() of query k settles; get*Resources maps it; Promise.all and the
\* handler's try/catch react
ProviderRespond ==
    /\ event.httpMethod = "GET"
    /\ \E k \in Queries :
         /\ q[k].status = "pending"
         /\ \E o \in Outcomes(k, MaxRecords) :
              /\ raw' = [raw EXCEPT ![k] = o]
              /\ q' = [q EXCEPT ![k] = GetResources(k, o)]
              /\ response' = GetOutcome(response, q', k)
    /\ UNCHANGED <<call, event, ret>>

\* the HTTP response reaches axios (or the request fails without one) and
\* the api.ts function returns
ApiReturn ==
    /\ call.fn \in {"fetchResources", "deleteResource"}
    /\ ret = NoRet
    /\ \E delivered \in BOOLEAN :
         /\ delivered => response # NoResponse
         /\ ret' = IF call.fn = "fetchResources"
                   THEN [kind |-> "ResourceResponse",
                         value |-> fetchResources(response, delivered),
                         ok |-> FALSE]
                   ELSE [kind |-> "boolean",
                         value |-> ResourceResponse(<<>>, Null),
                         ok |-> deleteResource(response, delivered)]
    /\ UNCHANGED <<call, event, q, raw, response>>

NextApi ==
    \/ (FetchResourcesCall /\ UNCHANGED dashVars)
    \/ (DeleteResourceCall /\ UNCHANGED dashVars)
    \/ (OtherRequest /\ UNCHANGED dashVars)
    \/ (ProviderRespond /\ UNCHANGED dashVars)
    \/ (ApiReturn /\ UNCHANGED dashVars)

----------------------------------------------------------------------------
(* What the dashboard's requests can be answered with *)

RECURSIVE Settle(_, _, _, _)
\* the handler's answer when the queries settle in the given order with the
\* provider outcomes w
Settle(prev, qs, w, order) ==
    IF order = <<>> THEN prev
    ELSE LET k   == Head(order)
             qs2 == [qs EXCEPT ![k] = GetResources(k, w[k])]
         IN  Settle(GetOutcome(prev, qs2, k), qs2, w, Tail(order))

\* settlement orders: any query first, the others after it
SettleOrders ==
    {<<f>> \o SelectSeq(QueryOrder, LAMBDA k : k # f) : f \in Queries}

\* the provider outcomes of one GET: one outcome per query
Worlds(n) ==
    {[EC2 |-> a, RDS |-> b, EBS |-> c, SNAPSHOT |-> d] :
        a \in OutcomesOver(DashPool("EC2"), n),
        b \in OutcomesOver(DashPool("RDS"), n),
        c \in OutcomesOver(DashPool("EBS"), n),
        d \in OutcomesOver(DashPool("SNAPSHOT"), n)}

\* every answer the handler gives to GET /resources
GetResponses ==
    {Settle(HandlerSync(Event("GET", NoId)), [k \in Queries |-> Pending], w, ord) :
        w \in Worlds(MaxRows), ord \in SettleOrders}

\* every value fetchResources() returns
FetchResults ==
    {fetchResources(r, TRUE) : r \in GetResponses}
        \cup {fetchResources(NoResponse, FALSE)}

\* every value deleteResource(id) returns
DeleteResults(id) ==
    {deleteResource(HandlerSync(Event("DELETE", pid)), delivered) :
        pid \in DeletePathIds(id), delivered \in BOOLEAN}

----------------------------------------------------------------------------
(* App.tsx *)

ResourceTypes == <<"EC2", "RDS", "EBS", "SNAPSHOT">>
Filters == {"ALL", "EC2", "RDS", "EBS", "SNAPSHOT"}

OfType(list, t) == SelectSeq(list, LAMBDA r : r.type = t)

\* resources.filter(r => r.id !== id)
WithoutId(list, id) == SelectSeq(list, LAMBDA r : r.id # id)

RECURSIVE SumCost(_)
\* list.reduce((sum, r) => sum + r.cost, 0)
SumCost(list) == IF list = <<>> THEN 0 ELSE Head(list).cost + SumCost(Tail(list))

filteredResources ==
    IF selectedType = "ALL" THEN resources ELSE OfType(resources, selectedType)

\* tiles computed over the filtered rows instead of the full list
getResourceStatsFiltered ==
    [i \in 1..Len(ResourceTypes) |->
        [type |-> ResourceTypes[i],
         count |-> Len(OfType(filteredResources, ResourceTypes[i])),
         totalCost |-> SumCost(OfType(filteredResources, ResourceTypes[i]))]]

getResourceStats ==
    [i \in 1..Len(ResourceTypes) |->
        [type |-> ResourceTypes[i],
         count |-> Len(OfType(resources, ResourceTypes[i])),
         totalCost |-> SumCost(OfType(resources, ResourceTypes[i]))]]

\* what is rendered below the banner
View ==
    IF loading THEN "spinner"
    ELSE IF Len(filteredResources) = 0 THEN "empty" ELSE "table"

InitDash ==
    /\ resources = <<>>
    /\ loading = TRUE
    /\ error = Null
    /\ selectedType = "ALL"
    /\ issued = 0
    /\ pendingLoads = {}
    /\ pendingDeletes = {}
    /\ startedDeletes = 0
    /\ lastResolved = 0
    /\ lastResult = ResourceResponse(<<>>, Null)
    /\ removedIds = {}

\* loadResources() up to its await
loadResourcesStart ==
    /\ loading' = TRUE
    /\ error' = Null
    /\ issued' = issued + 1
    /\ pendingLoads' = pendingLoads \cup {issued + 1}
    /\ UNCHANGED <<resources, selectedType, pendingDeletes, startedDeletes,
                   lastResolved, lastResult, removedIds>>

\* useEffect(() => { loadResources(); }, [])
MountEffect ==
    /\ issued = 0
    /\ loadResourcesStart

\* the Refresh button, rendered in every view
Refresh ==
    /\ issued >= 1
    /\ issued < MaxLoads
    /\ loadResourcesStart

\* a dashboard that drops the response of every Load but the latest one
loadResourcesResumeLatest(i, rr) ==
    /\ pendingLoads' = pendingLoads \ {i}
    /\ lastResolved' = i
    /\ lastResult' = rr
    /\ IF i = issued
       THEN /\ resources' = IF Truthy(rr.error) THEN <<>> ELSE rr.resources
            /\ error' = IF Truthy(rr.error) THEN rr.error ELSE error
            /\ loading' = FALSE
            /\ removedIds' = {}
       ELSE UNCHANGED <<resources, error, loading, removedIds>>
    /\ UNCHANGED <<selectedType, issued, pendingDeletes, startedDeletes>>

\* loadResources() call i after its await, fetchResources() having returned rr
loadResourcesResume(i, rr) ==
    /\ pendingLoads' = pendingLoads \ {i}
    /\ lastResolved' = i
    /\ lastResult' = rr
    /\ IF Truthy(rr.error)
       THEN /\ error' = rr.error
            /\ resources' = <<>>
       ELSE /\ resources' = rr.resources
            /\ UNCHANGED error
    /\ loading' = FALSE
    /\ removedIds' = {}
    /\ UNCHANGED <<selectedType, issued, pendingDeletes, startedDeletes>>

LoadResolve ==
    \E i \in pendingLoads : \E rr \in FetchResults : loadResourcesResume(i, rr)

\* a summary tile or a filter button
SetSelectedType ==
    /\ \E t \in Filters : selectedType' = t
    /\ UNCHANGED <<resources, loading, error, issued, pendingLoads,
                   pendingDeletes, startedDeletes, lastResolved, lastResult,
                   removedIds>>

\* the trash button of a rendered row: handleDelete(resource.id) up to its
\* await; the closure keeps the resources of the render it was created in
HandleDelete ==
    /\ View = "table"
    /\ startedDeletes < MaxDeletes
    /\ \E n \in 1..Len(filteredResources) : \E confirmed \in BOOLEAN :
         IF confirmed
         THEN /\ pendingDeletes' = pendingDeletes \cup
                    {[id |-> filteredResources[n].id, captured |-> resources]}
              /\ startedDeletes' = startedDeletes + 1
         ELSE UNCHANGED <<pendingDeletes, startedDeletes>>
    /\ UNCHANGED <<resources, loading, error, selectedType, issued,
                   pendingLoads, lastResolved, lastResult, removedIds>>

\* handleDelete call d after its await, deleteResource(id) having returned ok
handleDeleteResume(d, ok) ==
    /\ pendingDeletes' = pendingDeletes \ {d}
    /\ IF ok
       THEN /\ resources' = WithoutId(d.captured, d.id)
            /\ removedIds' = removedIds \cup {d.id}
            /\ UNCHANGED error
       ELSE /\ error' = "Failed to delete resource"
            /\ UNCHANGED <<resources, removedIds>>
    /\ UNCHANGED <<loading, selectedType, issued, pendingLoads, startedDeletes,
                   lastResolved, lastResult>>

DeleteResolve ==
    \E d \in pendingDeletes : \E ok \in DeleteResults(d.id) :
        handleDeleteResume(d, ok)

NextDash ==
    \/ (MountEffect /\ UNCHANGED apiVars)
    \/ (Refresh /\ UNCHANGED apiVars)
    \/ (LoadResolve /\ UNCHANGED apiVars)
    \/ (SetSelectedType /\ UNCHANGED apiVars)
    \/ (HandleDelete /\ UNCHANGED apiVars)
    \/ (DeleteResolve /\ UNCHANGED apiVars)

----------------------------------------------------------------------------
(* Specifications *)

Init == InitApi /\ InitDash

SpecApi == Init /\ [][NextApi]_vars

Spec == Init /\ [][NextDash]_vars

----------------------------------------------------------------------------
(* Properties of the aggregator and api.ts, checked under SpecApi *)

IdsOf(list) == [i \in 1..Len(list) |-> list[i].id]
TypesOf(list) == [i \in 1..Len(list) |-> list[i].type]
Repeat(x, n) == [i \in 1..n |-> x]

IsGet == event.httpMethod = "GET"
AnyRejected == \E k \in Queries : q[k].status = "rejected"
AllFulfilled == \A k \in Queries : q[k].status = "fulfilled"

\* C1: in a GET, once any of the four queries has failed, the handler has
\* answered 500 with an error text and no resource of any type, whatever the
\* other three returned or will return; fetchResources then returns an empty
\* list with an error.
C1_FailedQueryGives500 ==
    (IsGet /\ AnyRejected) =>
        /\ response.statusCode = 500
        /\ response.kind = "error"
        /\ Truthy(response.text)
        /\ response.resources = <<>>
        /\ ret.kind = "ResourceResponse" =>
              ret.value.resources = <<>> /\ Truthy(ret.value.error)

\* one provider query failed, the other three delivered records
C1_Witness ==
    /\ IsGet
    /\ \E k \in Queries :
         /\ raw[k] = ProviderFail("Rate exceeded")
         /\ q[k].status = "rejected"
         /\ \A j \in Queries \ {k} :
              q[j].status = "fulfilled" /\ Len(q[j].value) > 0
    /\ response.statusCode = 500
    /\ ret.kind = "ResourceResponse"

\* C2: a DELETE without a resource id (absent or empty) is answered 400, and
\* a DELETE with a non-empty id is answered 200 with a message.
C2_DeleteStatus ==
    event.httpMethod = "DELETE" =>
        IF ~Truthy(PathId(event))
        THEN response.statusCode = 400
        ELSE response.statusCode = 200 /\ response.kind = "message"

\* C3: for each of the four kinds, when the provider's answer holds a record
\* without a tag collection the mapping raises nothing, and the resource made
\* from such a record is named by its id.
C3_UntaggedRecordNamedById ==
    \A k \in Queries :
        (raw[k].ok /\ \E i \in 1..Len(raw[k].records) : ~raw[k].records[i].hasTags)
        => /\ q[k].status = "fulfilled"
           /\ \A i \in 1..Len(q[k].value) :
                (\E j \in 1..Len(raw[k].records) :
                    /\ raw[k].records[j].id = q[k].value[i].id
                    /\ ~raw[k].records[j].hasTags)
                => q[k].value[i].name = q[k].value[i].id

\* the ids the provider returned for query k, in its order (for the managed
\* databases: of the stopped ones)
ReturnedIds(k) ==
    IdsOf(IF k = "RDS"
          THEN SelectSeq(raw[k].records, LAMBDA r : r.status = "stopped")
          ELSE raw[k].records)

C7_EmptyIdSendsNothing ==
    (call.fn = "deleteResource" /\ call.arg = "") => event.httpMethod # "DELETE"

----------------------------------------------------------------------------
(* Properties of the dashboard, checked under Spec *)

\* C5: a Load that resumes with a list leaves resources equal to that list
\* and no error; one that resumes with an error leaves an error message and
\* no resources.
C5_LoadEndState ==
    [][\A i \in pendingLoads :
          i \notin pendingLoads' =>
             IF Truthy(lastResult'.error)
             THEN error' # Null /\ resources' = <<>>
             ELSE resources' = lastResult'.resources /\ error' = Null]_vars

\* C6: an id removed by a successful Delete row stays out of resources until
\* the next Load response is applied.
C6_RemovedIdStaysAbsent ==
    \A x \in removedIds : \A i \in 1..Len(resources) : resources[i].id # x

\* C8: the four tile counts add up to the length of the unfiltered list and
\* every tile's totalCost is 0, whatever filter is selected.
C8_TilesAddUp ==
    LET st == getResourceStats
    IN  /\ Len(st) = 4
        /\ st[1].count + st[2].count + st[3].count + st[4].count = Len(resources)
        /\ \A i \in 1..4 : st[i].totalCost = 0

\* a filtered view of a loaded list of three types after a Delete row
C8_Witness ==
    /\ Len(resources) = 2
    /\ selectedType = "EBS"
    /\ Len(filteredResources) = 1
    /\ removedIds # {}
    /\ getResourceStats[1].count = 1
    /\ getResourceStats[3].count = 1

\* C9: overlapping Loads all resume, and resources is what the Load that
\* resumed last received (until a Delete row removes from it), also when that
\* Load was not the one started last.
C9_LastResponseWins ==
    (lastResolved # 0 /\ removedIds = {}) =>
        resources = IF Truthy(lastResult.error) THEN <<>> ELSE lastResult.resources

\* two Loads were started, the second resumed first, the first resumed last
\* and its list is shown
C9_Witness ==
    /\ issued >= 2
    /\ pendingLoads = {}
    /\ lastResolved = 1
    /\ removedIds = {}
    /\ Len(resources) > 0
    /\ resources = lastResult.resources

\* C10: loading is true while any Load is in flight.
C10_LoadingWhileInFlight ==
    pendingLoads # {} => loading = TRUE

====
